---- MODULE Spec2Model ----
(***************************************************************************)
(* Memedici backend: agent registry, persona evolution, tool resolution    *)
(* and the chat turn (LangGraph ReAct loop) of backend/*.py.               *)
(*                                                                         *)
(* Specifications                                                          *)
(*   SpecEvolve    one configuration under a sequence of evolve calls      *)
(*   SpecRegistry  the entry points that write the agent registry          *)
(*   SpecResolve   tool resolution when an agent is built                  *)
(*   Spec          chat turns, one after the other                         *)
(*   SpecThreads   two chat requests that may overlap                      *)
(*   SpecLoop      one chat turn driven up to the recursion limit          *)
(*   SpecManager   chat turns, memory resets and configuration updates     *)
(*   SpecStore     tool threads storing artworks of one agent              *)
(*   SpecInfo      configuration reads and prompt compilation              *)
(*   SpecTools     executions of custom tools                              *)
(*   SpecRules     the evolution rules of the chat route                   *)
(*   SpecSeed      seeds of the generation calls of a built agent          *)
(*   SpecArtworks  one agent storing artworks one after the other          *)
(*   SpecDataset   dataset cache, upload timer and upload routes           *)
(*   SpecDatasetLive  the same with successful uploads and a fair timer    *)
(***************************************************************************)
EXTENDS Integers, Sequences, FiniteSets, TLC

VARIABLES
    agents,         \* AgentRegistry.agents: agent id -> AgentConfig
    agentsDb,       \* rows of table "agents": agent id -> persisted fields
    studios,        \* studio registry: set of studio ids
    customTools,    \* CustomToolManager.custom_tools, in insertion order
    managerAgents,  \* LangGraphAgentManager.agents: agent id -> built agent
    checkpoints,    \* LangGraphAgentManager.checkpointer (MemorySaver)
    chat,           \* one record per request slot: the chat turn in progress
    turns,          \* history: chat requests accepted so far
    artSeq,         \* artwork ids handed out so far (uuid4 of the tools)
    lastChat,       \* history: the last finished chat turn and its ChatResponse
    lastOp,         \* history: the last registry entry point and its reply
    ev0,            \* history: configuration before the first evolve call
    evCalls,        \* history: number of evolve calls
    evArt,          \* history: number of "artwork_creation" evolve calls
    evCross,        \* history: crossings of a multiple of five by evolve
    stores,         \* one record per tool thread inside store_artwork_in_db
    lastPrompt,     \* history: the last prompt compilation and its outcome
    dataset         \* DecentralizedDatasetManager: cache directory and uploaders

regVars   == <<agents, agentsDb>>
envVars   == <<studios, customTools>>
chatVars  == <<managerAgents, checkpoints, chat, turns, artSeq, lastChat>>
evVars    == <<ev0, evCalls, evArt, evCross>>
auxVars   == <<stores, lastPrompt, dataset>>
vars      == <<agents, agentsDb, studios, customTools, managerAgents,
               checkpoints, chat, turns, artSeq, lastChat, lastOp, ev0, evCalls, evArt,
               evCross, stores, lastPrompt, dataset>>

----------------------------------------------------------------------------
\* Bounds of the model

MaxEvolveCalls == 16        \* evolve calls per behaviour of SpecEvolve
MaxCount       == 2         \* cap of interaction_count in SpecRegistry
MaxToolCalls   == 1         \* tool requests per turn in Spec and SpecThreads
MaxTurns       == 2         \* chat requests accepted per behaviour
MaxArtworks    == 2         \* artwork ids handed out
MaxStored      == 101       \* artworks one agent stores in SpecArtworks

\* Program constants

MilestoneStep  == 5         \* artworks_created % 5 == 0
TraitCapacity  == 5         \* len(core_traits) < 5
RecursionLimit == 30        \* {"recursion_limit": 30}

None == "None"

----------------------------------------------------------------------------
\* Sequence helpers

InSeq(x, s) == \E i \in 1..Len(s) : s[i] = x

Occurrences(x, s) == Cardinality({i \in 1..Len(s) : s[i] = x})

Put(f, k, v) == [x \in (DOMAIN f) \cup {k} |-> IF x = k THEN v ELSE f[x]]

----------------------------------------------------------------------------
\* AgentConfig

\* persona_evolution_history is an append-only log whose entries carry a
\* timestamp and the running interaction_count; the model keeps its length.
Config(id, core, pers, ic, ac, tools, ctools, mem, studio) ==
    [id |-> id, core_traits |-> core, personality_traits |-> pers,
     interaction_count |-> ic, artworks_created |-> ac,
     persona_evolution_history |-> ic,
     tools_enabled |-> tools, custom_tools |-> ctools,
     memory_enabled |-> mem, studio_id |-> studio, artwork_ids |-> <<>>]

DefaultTools == {"generate_image", "generate_video", "list_available_models"}

DefaultConfig ==
    Config("default_agent", <<"curious", "experimental", "intuitive">>,
           <<"curious", "experimental", "intuitive">>, 0, 0,
           DefaultTools, <<>>, TRUE, None)

EvolvePersonaNoCapacity(cfg, interaction_type) ==
    LET c1 == [cfg EXCEPT !.interaction_count = @ + 1,
                          !.persona_evolution_history = @ + 1]
        c2 == [c1 EXCEPT !.artworks_created = @ + 1]
    IN  IF interaction_type # "artwork_creation" THEN c1
        ELSE IF c2.artworks_created % MilestoneStep = 0
                /\ ~InSeq("experienced", c2.core_traits)
             THEN [c2 EXCEPT !.core_traits = Append(@, "experienced")]
             ELSE c2

EvolvePersonaNoCount(cfg, interaction_type) ==
    LET c1 == [cfg EXCEPT !.persona_evolution_history = @ + 1]
        c2 == [c1 EXCEPT !.artworks_created = @ + 1]
    IN  IF interaction_type # "artwork_creation" THEN c1 ELSE c2

EvolvePersona(cfg, interaction_type) ==
    LET c1 == [cfg EXCEPT !.interaction_count = @ + 1,
                          !.persona_evolution_history = @ + 1]
        c2 == [c1 EXCEPT !.artworks_created = @ + 1]
    IN  IF interaction_type # "artwork_creation" THEN c1
        ELSE IF c2.artworks_created % MilestoneStep = 0
                /\ ~InSeq("experienced", c2.core_traits)
                /\ ~InSeq("experienced", c2.personality_traits)
             THEN IF Len(c2.core_traits) < TraitCapacity
                  THEN [c2 EXCEPT !.core_traits = Append(@, "experienced")]
                  ELSE [c2 EXCEPT !.personality_traits =
                                      Append(@, "experienced")]
             ELSE c2

----------------------------------------------------------------------------
\* AgentRegistry

GetAgentConfigUnderId(agent_id) ==
    IF agent_id \in DOMAIN agents THEN agents[agent_id]
    ELSE [DefaultConfig EXCEPT !.id = agent_id]

GetAgentConfig(agent_id) ==
    IF agent_id \in DOMAIN agents THEN agents[agent_id] ELSE DefaultConfig

\* _save_agent_to_db: the row is keyed by agent_id, not by config.id
SaveAgentToDb(db, agent_id, cfg) == Put(db, agent_id, [cfg EXCEPT !.id = agent_id])

CreateAgent(agent_id, cfg) ==
    /\ agents' = Put(agents, agent_id, cfg)
    /\ agentsDb' = SaveAgentToDb(agentsDb, agent_id, cfg)

\* POST /agents/{agent_id}/evolve
EvolveAgentPersona(agent_id, interaction_type) ==
    /\ CreateAgent(agent_id, EvolvePersona(GetAgentConfig(agent_id), interaction_type))
    /\ lastOp' = [op |-> "evolve", agent_id |-> agent_id, studio_id |-> None,
                  reply |-> "ok"]

----------------------------------------------------------------------------
\* SpecEvolve: evolve calls on one configuration

EvolveAgent == "A"

InteractionTypes == {"artwork_creation", "creative_analysis", "custom_tool_usage"}

InitialTraits ==
    { <<>>,
      <<"mystical", "intuitive", "transcendent", "luminous">>,
      <<"mystical", "intuitive", "transcendent", "luminous", "bold">>,
      <<"mystical", "experienced">> }

InitialPersonality == { <<"curious">>, <<"curious", "experienced">> }

NoChat == [pc |-> "idle", agent_id |-> None, thread_id |-> None, steps |-> 0,
           messages |-> <<>>, calls |-> <<>>, pending |-> None, final |-> None,
           failure |-> None, info |-> None]

NoTurn == [agent_id |-> None, thread_id |-> None, steps |-> 0, calls |-> <<>>,
           final |-> None, failure |-> None, before |-> None, result |-> None]

Sessions == {"r1", "r2"}

\* tool threads of one batch of tool calls
StoreWorkers == {"w1", "w2"}

NoStore == [pc |-> "idle", agent_id |-> None, artwork_id |-> 0, seen |-> 0]

NoPrompt == [agent_id |-> None, studio_name |-> None, error |-> None,
             text |-> <<>>, stats |-> <<>>]

\* entry ids of the dataset cache (uuid4 of create_dataset_entry)
DatasetEntryIds == {"e1", "e2"}

\* the timer thread and the event loop that serves the upload routes
Uploaders == {"timer", "route"}

NoResult == [called |-> FALSE, upload_ok |-> FALSE, configured |-> FALSE,
             publish_ok |-> FALSE, returned |-> FALSE, keys |-> {},
             success |-> FALSE, ipns_published |-> FALSE]

\* entries: entry_*.json of the cache, old: those older than the upload
\* delay, markers: uploaded_*.marker, uploads: successful storage uploads
\* that included the entry, up: the batch each uploader is working on
NoDataset ==
    [started |-> FALSE, ipns |-> FALSE, entries |-> {}, old |-> {}, markers |-> {},
     uploads |-> [e \in DatasetEntryIds |-> 0],
     up |-> [u \in Uploaders |-> [pc |-> "idle", pending |-> {}]],
     lastResult |-> NoResult]

InitEvolve ==
    /\ \E core \in InitialTraits, pers \in InitialPersonality, n \in {0, 3} :
          LET c == Config(EvolveAgent, core, pers, n, n, DefaultTools, <<>>, TRUE, None)
          IN  /\ agents = (EvolveAgent :> c)
              /\ agentsDb = (EvolveAgent :> c)
              /\ ev0 = c
    /\ studios = {}
    /\ customTools = <<>>
    /\ managerAgents = <<>>
    /\ checkpoints = <<>>
    /\ chat = [s \in Sessions |-> NoChat]
    /\ turns = 0
    /\ artSeq = 0
    /\ lastChat = NoTurn
    /\ stores = [w \in StoreWorkers |-> NoStore]
    /\ lastPrompt = NoPrompt
    /\ dataset = NoDataset
    /\ lastOp = [op |-> "init", agent_id |-> None, studio_id |-> None, reply |-> "ok"]
    /\ evCalls = 0
    /\ evArt = 0
    /\ evCross = 0

EvolveCall(interaction_type) ==
    /\ evCalls < MaxEvolveCalls
    /\ EvolveAgentPersona(EvolveAgent, interaction_type)
    /\ evCalls' = evCalls + 1
    /\ evArt' = evArt + (IF interaction_type = "artwork_creation" THEN 1 ELSE 0)
    /\ evCross' = evCross +
          (IF /\ interaction_type = "artwork_creation"
              /\ (agents[EvolveAgent].artworks_created + 1) % MilestoneStep = 0
           THEN 1 ELSE 0)
    /\ UNCHANGED <<ev0, envVars, chatVars, auxVars>>

NextEvolve == \E t \in InteractionTypes : EvolveCall(t)

SpecEvolve == InitEvolve /\ [][NextEvolve]_vars

----------------------------------------------------------------------------
\* C4: after N evolve calls on one configuration interaction_count is its
\* initial value plus N, and artworks_created is its initial value plus the
\* number of calls whose interaction type is "artwork_creation".
C4_CountersFollowCalls ==
    /\ agents[EvolveAgent].interaction_count = ev0.interaction_count + evCalls
    /\ agents[EvolveAgent].artworks_created = ev0.artworks_created + evArt

C4_Witness ==
    /\ evCalls = 5
    /\ evArt = 2
    /\ agents[EvolveAgent].interaction_count = ev0.interaction_count + 5

\* C6 as stated: from traits without "experienced", once artworks_created has
\* crossed a multiple of five through evolve, core_traits holds "experienced"
\* exactly once.
C6_ExperiencedOnceInCore ==
    (/\ ~InSeq("experienced", ev0.core_traits)
     /\ ~InSeq("experienced", ev0.personality_traits)
     /\ evCross >= 1)
        => Occurrences("experienced", agents[EvolveAgent].core_traits) = 1

\* C6 amended: the trait goes to core_traits only while core_traits has fewer
\* than five entries; with five or more it goes to personality_traits. In
\* both cases it is held exactly once by the list that received it after the
\* first crossing, and later crossings add no second copy.
C6_ExperiencedOnceAmended ==
    (/\ ~InSeq("experienced", ev0.core_traits)
     /\ ~InSeq("experienced", ev0.personality_traits)
     /\ evCross >= 1)
        => LET c == agents[EvolveAgent]
           IN  IF Len(ev0.core_traits) < TraitCapacity
               THEN /\ Occurrences("experienced", c.core_traits) = 1
                    /\ Occurrences("experienced", c.personality_traits) = 0
               ELSE /\ Occurrences("experienced", c.core_traits) = 0
                    /\ Occurrences("experienced", c.personality_traits) = 1

C6_Witness ==
    /\ ~InSeq("experienced", ev0.core_traits)
    /\ ~InSeq("experienced", ev0.personality_traits)
    /\ Len(ev0.core_traits) < TraitCapacity
    /\ evCross = 3
    /\ Occurrences("experienced", agents[EvolveAgent].core_traits) = 1

----------------------------------------------------------------------------
\* SpecRegistry: the entry points that write agent configurations

DefaultAgentId == "ethereal_painter"

\* _setup_default_agents (one of its three agents)
DefaultAgent ==
    Config(DefaultAgentId, <<"mystical", "intuitive", "transcendent", "luminous">>,
           <<"mystical", "intuitive", "boundary-pushing">>, 0, 0,
           DefaultTools, <<>>, TRUE, None)

\* examples/memedici_crypto_artist_agents.json and memedici_studios.json as
\* read by load_agents_from_file / load_studios_from_file
AgentsFile ==
    ("A" :> Config("A", <<"bold", "ironic", "restless">>, <<>>, 0, 0,
                   {"generate_image"}, <<>>, TRUE, "s1"))

StudiosFile == {"s1"}

\* registry lookup of a studio id (None when it is not registered)
GetStudio(studio_id) == IF studio_id \in studios THEN studio_id ELSE None

\* _load_agents_from_db: one AgentConfig per row
LoadAgentFromRow(row) ==
    [row EXCEPT !.core_traits =
        IF @ = <<>> THEN <<"creative", "innovative", "expressive">> ELSE @]

LoadAgentsFromDb(db) == [k \in DOMAIN db |-> LoadAgentFromRow(db[k])]

SetupDefaultAgents(reg) ==
    IF DefaultAgentId \in DOMAIN reg THEN reg ELSE Put(reg, DefaultAgentId, DefaultAgent)

\* ensure_crypto_artists_loaded: create_agent for every agent of the file,
\* whether or not the registry already holds it
LoadAgentsFile(reg) ==
    [k \in (DOMAIN reg) \cup (DOMAIN AgentsFile) |->
        IF k \in DOMAIN AgentsFile THEN AgentsFile[k] ELSE reg[k]]

SaveAgentsFile(db) ==
    [k \in (DOMAIN db) \cup (DOMAIN AgentsFile) |->
        IF k \in DOMAIN AgentsFile THEN [AgentsFile[k] EXCEPT !.id = k] ELSE db[k]]

Op(op, agent_id, studio_id, reply) ==
    [op |-> op, agent_id |-> agent_id, studio_id |-> studio_id, reply |-> reply]

StudioIds == {"s1", "ghost"}

RegistryAgentIds == {"A", "X"}

\* request bodies of the create entry points
RequestConfigs(agent_id) ==
    { Config(agent_id, <<"bold", "ironic", "restless">>, <<>>, n, n,
             {"generate_image"}, <<>>, TRUE, studio) :
        n \in {0, 1}, studio \in StudioIds \cup {None} }

\* routes/agents.py: POST /agents
CreateAgentRoute(agent_id, cfg) ==
    /\ IF cfg.studio_id = None \/ GetStudio(cfg.studio_id) = None
       THEN /\ UNCHANGED regVars
            /\ lastOp' = Op("create_route", agent_id, cfg.studio_id, "http_400")
       ELSE /\ CreateAgent(agent_id, cfg)
            /\ lastOp' = Op("create_route", agent_id, cfg.studio_id, "ok")
    /\ UNCHANGED <<envVars, chatVars, evVars, auxVars>>

\* main.py: POST /agents
CreateAgentMain(agent_id, cfg) ==
    /\ CreateAgent(agent_id, cfg)
    /\ lastOp' = Op("create_main", agent_id, cfg.studio_id, "ok")
    /\ UNCHANGED <<envVars, chatVars, evVars, auxVars>>

\* routes/studios.py: POST /studios
CreateStudio(studio_id) ==
    /\ studios' = studios \cup {studio_id}
    /\ lastOp' = Op("create_studio", None, studio_id, "ok")
    /\ UNCHANGED <<regVars, customTools, chatVars, evVars, auxVars>>

\* blockchain_event_listener.py: AgentCreated / AgentBonded; the event's
\* JSON may or may not carry the counters, missing ones default to 0
BlockchainAgentEvent(agent_id, cfg) ==
    /\ CreateAgent(agent_id, [cfg EXCEPT !.id = agent_id])
    /\ lastOp' = Op("blockchain_event", agent_id, cfg.studio_id, "ok")
    /\ UNCHANGED <<envVars, chatVars, evVars, auxVars>>

EvolveRoute(agent_id, interaction_type) ==
    /\ GetAgentConfig(agent_id).interaction_count < MaxCount
    /\ EvolveAgentPersona(agent_id, interaction_type)
    /\ UNCHANGED <<envVars, chatVars, evVars, auxVars>>

\* process start: AgentRegistry.__init__ followed by the startup event
Startup ==
    /\ agents' = LoadAgentsFile(SetupDefaultAgents(LoadAgentsFromDb(agentsDb)))
    /\ agentsDb' = SaveAgentsFile(agentsDb)
    /\ studios' = studios \cup StudiosFile
    /\ managerAgents' = <<>>
    /\ checkpoints' = <<>>
    /\ chat' = [s \in Sessions |-> NoChat]
    /\ lastOp' = Op("startup", None, None, "ok")
    /\ UNCHANGED <<customTools, turns, artSeq, lastChat, evVars, auxVars>>

InitService ==
    /\ agents = LoadAgentsFile(SetupDefaultAgents(<<>>))
    /\ agentsDb = SaveAgentsFile(<<>>)
    /\ studios = StudiosFile
    /\ customTools = <<>>
    /\ managerAgents = <<>>
    /\ checkpoints = <<>>
    /\ chat = [s \in Sessions |-> NoChat]
    /\ turns = 0
    /\ artSeq = 0
    /\ lastChat = NoTurn
    /\ stores = [w \in StoreWorkers |-> NoStore]
    /\ lastPrompt = NoPrompt
    /\ dataset = NoDataset
    /\ lastOp = Op("startup", None, None, "ok")
    /\ ev0 = DefaultConfig
    /\ evCalls = 0
    /\ evArt = 0
    /\ evCross = 0

NextRegistry ==
    \/ \E a \in RegistryAgentIds : \E c \in RequestConfigs(a) : CreateAgentRoute(a, c)
    \/ \E a \in RegistryAgentIds : \E c \in RequestConfigs(a) : CreateAgentMain(a, c)
    \/ \E a \in RegistryAgentIds : \E c \in RequestConfigs(a) : BlockchainAgentEvent(a, c)
    \/ \E a \in RegistryAgentIds \cup {DefaultAgentId} :
          \E t \in InteractionTypes : EvolveRoute(a, t)
    \/ \E st \in StudioIds : CreateStudio(st)
    \/ Startup

SpecRegistry == InitService /\ [][NextRegistry]_vars

\* C5: the counters held for an agent id never go down, whatever entry point
\* touches the agent.
C5_CountersNeverDecrease ==
    [][\A a \in DOMAIN agents :
          /\ a \in DOMAIN agents'
          /\ agents'[a].interaction_count >= agents[a].interaction_count
          /\ agents'[a].artworks_created >= agents[a].artworks_created]_vars

\* C9: every create entry point answers a studio_id that is not in the studio
\* registry with a validation error and writes neither the registry nor the
\* store.
C9_UnknownStudioRejected ==
    [][(/\ lastOp'.op \in {"create_route", "create_main"}
        /\ lastOp'.studio_id # None
        /\ GetStudio(lastOp'.studio_id) = None)
          => (lastOp'.reply = "http_400" /\ UNCHANGED regVars)]_vars

\* C25: the id of a configuration is never re-keyed: every configuration
\* the registry holds under key k has id k.
C25_IdMatchesKey == \A k \in DOMAIN agents : agents[k].id = k

----------------------------------------------------------------------------
\* Tool resolver

StandardToolNames == <<"generate_image", "generate_images_advanced", "generate_video">>

BoundTool(name, kind, ref) == [name |-> name, kind |-> kind, ref |-> ref]

\* get_agent_aware_tools: the standard tools bound to one agent id
GetAgentAwareTools(agent_id) ==
    [i \in 1..Len(StandardToolNames) |->
        BoundTool(StandardToolNames[i], "standard", agent_id)]

\* get_all_custom_tools_for_agent: an empty name list selects every tool
GetAllCustomToolsForAgent(custom_tool_names) ==
    LET Wanted(t) == custom_tool_names = <<>> \/ InSeq(t.name, custom_tool_names)
        picked == SelectSeq(customTools, Wanted)
    IN  [i \in 1..Len(picked) |-> BoundTool(picked[i].name, "custom", picked[i].id)]

\* _get_agent_tools; an entry of custom_tools is its name, "" when it has none
GetAgentTools(cfg) ==
    LET Enabled(t) == t.name \in cfg.tools_enabled
        Named(n) == n # ""
        all == GetAgentAwareTools(cfg.id)
        standard == IF cfg.tools_enabled # {} THEN SelectSeq(all, Enabled) ELSE all
    IN  IF cfg.custom_tools # <<>>
        THEN standard \o GetAllCustomToolsForAgent(SelectSeq(cfg.custom_tools, Named))
        ELSE standard

\* get_or_create_agent: what the manager keeps for an agent it has built
BuiltAgent(cfg) ==
    [config |-> cfg, tools |-> GetAgentTools(cfg)]

GetOrCreateAgent(agent_id) ==
    IF agent_id \in DOMAIN managerAgents THEN managerAgents[agent_id]
    ELSE BuiltAgent(GetAgentConfig(agent_id))

----------------------------------------------------------------------------
\* SpecResolve: the resolver applied to bounded configurations and registries

ResolveToolSets == SUBSET {"generate_image", "generate_video", "weather"}

ResolveCustomTools ==
    { <<>>, <<"weather">>, <<"">>, <<"weather", "oracle">>, <<"generate_image">> }

\* saved_count is usage_count of the row of table custom_tools
ToolEntry(id, name) == [id |-> id, name |-> name, usage_count |-> 0, saved_count |-> 0]

ResolveRegistries ==
    { <<>>, <<ToolEntry("t1", "weather")>>,
      <<ToolEntry("t1", "weather"), ToolEntry("t2", "generate_image")>>,
      <<ToolEntry("t1", "oracle"), ToolEntry("t2", "weather")>> }

ResolveAgentIds == {"A", "X"}

InitResolve ==
    /\ \E tools \in ResolveToolSets, ctools \in ResolveCustomTools :
          LET c == Config("A", <<"bold">>, <<>>, 0, 0, tools, ctools, TRUE, None)
          IN  /\ agents = ("A" :> c)
              /\ agentsDb = ("A" :> c)
    /\ customTools \in ResolveRegistries
    /\ studios = {}
    /\ managerAgents = <<>>
    /\ checkpoints = <<>>
    /\ chat = [s \in Sessions |-> NoChat]
    /\ turns = 0
    /\ artSeq = 0
    /\ lastChat = NoTurn
    /\ stores = [w \in StoreWorkers |-> NoStore]
    /\ lastPrompt = NoPrompt
    /\ dataset = NoDataset
    /\ lastOp = Op("init", None, None, "ok")
    /\ ev0 = DefaultConfig
    /\ evCalls = 0
    /\ evArt = 0
    /\ evCross = 0

\* the agent-building half of get_or_create_agent
BuildAgent(agent_id) ==
    /\ agent_id \notin DOMAIN managerAgents
    /\ managerAgents' = Put(managerAgents, agent_id, GetOrCreateAgent(agent_id))
    /\ UNCHANGED <<regVars, envVars, checkpoints, chat, turns, artSeq, lastChat, lastOp,
                   evVars, auxVars>>

NextResolve == \E a \in ResolveAgentIds : BuildAgent(a)

SpecResolve == InitResolve /\ [][NextResolve]_vars

\* the registered custom tools a configuration names
ResolvableCustomTools(cfg) ==
    LET Named(t) == InSeq(t.name, cfg.custom_tools)
        picked == SelectSeq(customTools, Named)
    IN  [i \in 1..Len(picked) |-> BoundTool(picked[i].name, "custom", picked[i].id)]

\* C10: for a configuration with tools_enabled = [] the resolved tool list
\* holds no standard tool and exactly the resolvable custom tools.
C10_EmptyEnabledOnlyCustom ==
    \A a \in DOMAIN managerAgents :
        managerAgents[a].config.tools_enabled = {}
            => managerAgents[a].tools = ResolvableCustomTools(managerAgents[a].config)

\* C16: when the tool set of an agent is resolved, every named entry of
\* config.custom_tools has a registered custom-tool definition and resolves
\* to a tool of the agent.
C16_CustomToolsRegistered ==
    \A a \in DOMAIN managerAgents :
        LET cfg == managerAgents[a].config
            tools == managerAgents[a].tools
        IN  \A i \in 1..Len(cfg.custom_tools) :
                cfg.custom_tools[i] # ""
                    => ( /\ \E j \in 1..Len(customTools) :
                               customTools[j].name = cfg.custom_tools[i]
                         /\ \E j \in 1..Len(tools) :
                               tools[j].kind = "custom" /\ tools[j].name = cfg.custom_tools[i] )

\* C22: the resolved tool list never holds two tools of one name; where a
\* custom tool has the name of a standard tool, only the standard one is kept.
C22_StandardShadowsCustom ==
    \A a \in DOMAIN managerAgents :
        LET tools == managerAgents[a].tools
        IN  \A i, j \in 1..Len(tools) :
                i # j => tools[i].name # tools[j].name

\* C26: every custom tool of the resolved tool list is named in the
\* custom_tools of the configuration, also when entries carry no name.
C26_OnlyOwnCustomTools ==
    \A a \in DOMAIN managerAgents :
        LET cfg == managerAgents[a].config
            tools == managerAgents[a].tools
        IN  \A j \in 1..Len(tools) :
                tools[j].kind = "custom" => InSeq(tools[j].name, cfg.custom_tools)

----------------------------------------------------------------------------
\* SpecSeed: the seed of a generation call of a built agent

\* Optional[int] None
NoSeed == -2

SeedLimit == 10000

\* the value the generation service takes for "pick a seed at random"
RandomSeed == -1

SeedValues == {0, 7, 10000, 10001, 20000, 12345}

\* _get_agent_tools calls get_agent_aware_tools(config.id): the parameter
\* blockchain_seed of the wrappers keeps its default
ResolverSeed(blockchain_seed) == NoSeed

\* agent_aware_generate_image / agent_aware_generate_video
AgentAwareSeed(bound, seed) ==
    IF seed = NoSeed /\ bound # NoSeed
    THEN IF bound > SeedLimit THEN bound % SeedLimit ELSE bound
    ELSE seed

\* generate_image passes "seed or -1", generate_video replaces None by -1
ProviderSeed(tool, seed) ==
    IF tool = "generate_image"
    THEN IF seed = NoSeed \/ seed = 0 THEN RandomSeed ELSE seed
    ELSE IF seed = NoSeed THEN RandomSeed ELSE seed

SeedTools == {"generate_image", "generate_video"}

\* one call of a generation tool of a built agent; blockchain_seed is the
\* seed of the agent's configuration, seed the argument of the caller
GenerateCall(agent_id, tool, blockchain_seed, seed) ==
    /\ agent_id \in DOMAIN managerAgents
    /\ \E i \in 1..Len(managerAgents[agent_id].tools) :
          /\ managerAgents[agent_id].tools[i].name = tool
          /\ managerAgents[agent_id].tools[i].kind = "standard"
    /\ lastOp' = [op |-> "generate", agent_id |-> agent_id, studio_id |-> None,
                  reply |-> "ok", tool |-> tool, blockchain_seed |-> blockchain_seed,
                  seed |-> seed,
                  sent |-> ProviderSeed(tool,
                              AgentAwareSeed(ResolverSeed(blockchain_seed), seed))]
    /\ UNCHANGED <<regVars, envVars, chatVars, evVars, auxVars>>

InitSeed ==
    /\ InitResolve
    /\ customTools = <<>>
    /\ agents["A"].custom_tools = <<>>

NextSeed ==
    \/ \E a \in ResolveAgentIds : BuildAgent(a)
    \/ \E a \in ResolveAgentIds, tool \in SeedTools,
          bs \in SeedValues \cup {NoSeed}, seed \in SeedValues \cup {NoSeed} :
          GenerateCall(a, tool, bs, seed)

SpecSeed == InitSeed /\ [][NextSeed]_vars

\* C24: a generation call without explicit seed of an agent whose
\* configuration has a blockchain seed is sent that seed, reduced modulo
\* 10000 when above 10000; an explicit seed is sent as given; an injected
\* seed is never sent as the random-seed value.
C24_SeedInjected ==
    lastOp.op = "generate"
        => LET bs == lastOp.blockchain_seed
               injected == IF bs > SeedLimit THEN bs % SeedLimit ELSE bs
           IN  /\ (lastOp.seed = NoSeed /\ bs # NoSeed) => lastOp.sent = injected
               /\ lastOp.seed # NoSeed => lastOp.sent = lastOp.seed

----------------------------------------------------------------------------
\* SpecInfo: reads of agent configurations and prompt compilation

\* AgentConfig.studio_name when no studio was given
DefaultStudioName == "Untitled Studio"

StudioNames == {DefaultStudioName, "Ethereal Visions"}

\* parameters of get_comprehensive_system_prompt that have no default
PromptParameters ==
    {"agent_name", "archetype", "origin_story", "traits", "voice_style", "mediums",
     "signature_motifs", "influences", "colour_palette", "collab_affinity",
     "studio_name", "studio_description", "studio_theme", "art_style",
     "creation_rate", "interaction_count", "artworks_created", "studio_items"}

\* keyword arguments of the call in get_system_prompt
PassedKeywords ==
    {"agent_name", "archetype", "origin_story", "traits", "voice_style", "mediums",
     "signature_motifs", "influences", "colour_palette", "collab_affinity",
     "studio_name", "studio_description", "studio_theme", "art_style",
     "creation_rate", "interaction_count", "artworks_created"}

\* a call that leaves a required parameter out raises TypeError; the text
\* keeps the interpolated values in the template's order, numbers in stats
GetComprehensiveSystemPrompt(keywords, agent_name, traits, studio_name, ic, ac) ==
    IF ~(PromptParameters \subseteq keywords)
    THEN [error |-> "TypeError", text |-> <<>>, stats |-> <<>>]
    ELSE [error |-> None,
          text |-> <<"You are", agent_name, "Core Traits">> \o traits
                       \o <<"Studio Name", studio_name>>,
          stats |-> <<ic, ac>>]

GetSystemPrompt(cfg, studio_name) ==
    LET traits == IF cfg.core_traits # <<>> THEN cfg.core_traits
                  ELSE cfg.personality_traits
        base == GetComprehensiveSystemPrompt(PassedKeywords, cfg.id, traits, studio_name,
                                             cfg.interaction_count, cfg.artworks_created)
        tools_info == IF cfg.tools_enabled # {} THEN <<"AVAILABLE TOOLS">> ELSE <<>>
        custom_tools_info == IF cfg.custom_tools # <<>>
                             THEN <<"CUSTOM SPECIALIZED TOOLS">> \o cfg.custom_tools
                             ELSE <<>>
    IN  IF base.error # None THEN base
        ELSE [base EXCEPT !.text = @ \o tools_info \o custom_tools_info]

InfoAgentIds == {"A", "ghost"}

\* get_agent_config called by a handler that only reads
ReadAgentConfig(agent_id) ==
    /\ lastOp' = [op |-> "read", agent_id |-> agent_id, studio_id |-> None,
                  reply |-> "ok", config |-> GetAgentConfig(agent_id)]
    /\ UNCHANGED <<regVars, envVars, chatVars, evVars, auxVars>>

\* get_agent_info: compiles the prompt of the configuration it read
CompilePrompt(agent_id, studio_name) ==
    LET out == GetSystemPrompt(GetAgentConfig(agent_id), studio_name)
    IN  /\ lastPrompt' = [agent_id |-> agent_id, studio_name |-> studio_name,
                          error |-> out.error, text |-> out.text, stats |-> out.stats]
        /\ lastOp' = Op("agent_info", agent_id, None,
                        IF out.error = None THEN "ok" ELSE "error")
        /\ UNCHANGED <<regVars, envVars, chatVars, evVars, stores, dataset>>

InitInfo == InitResolve

NextInfo ==
    \/ \E a \in InfoAgentIds : ReadAgentConfig(a)
    \/ \E a \in InfoAgentIds, n \in StudioNames : CompilePrompt(a, n)
    \/ \E cfg \in RequestConfigs("A") : CreateAgentMain("A", cfg)

SpecInfo == InitInfo /\ [][NextInfo]_vars

\* C15: reading the configuration of an agent id that is not registered
\* does not fail: it yields the default configuration and changes neither
\* the registry nor the persisted store.
C15_UnknownReadFallsBack ==
    [][(lastOp'.op = "read" /\ lastOp'.agent_id \notin DOMAIN agents)
          => ( /\ lastOp'.reply = "ok"
               /\ lastOp'.config = DefaultConfig
               /\ UNCHANGED regVars )]_vars

C15_Witness ==
    /\ lastOp.op = "read"
    /\ lastOp.agent_id \notin DOMAIN agents
    /\ lastOp.config = DefaultConfig
    /\ "A" \in DOMAIN agents

\* C19: compiling the prompt of a configuration whose studio is unset
\* does not raise, and the prompt contains the default studio name.
C19_DefaultStudioCompiles ==
    (lastPrompt.agent_id # None /\ lastPrompt.studio_name = DefaultStudioName)
        => ( /\ lastPrompt.error = None
             /\ InSeq(DefaultStudioName, lastPrompt.text) )

----------------------------------------------------------------------------
\* SpecTools: executions of custom tools

\* execute_custom_tool: the usage count of the definition
CountUsage(tool_id) ==
    [i \in 1..Len(customTools) |->
        IF customTools[i].id = tool_id
        THEN [customTools[i] EXCEPT !.usage_count = @ + 1]
        ELSE customTools[i]]

\* _save_tool_to_db
SaveToolToDb(tools, tool_id) ==
    [i \in 1..Len(tools) |->
        IF tools[i].id = tool_id
        THEN [tools[i] EXCEPT !.saved_count = tools[i].usage_count]
        ELSE tools[i]]

ToolIds == {"t1", "t2", "t9"}

\* what the HTTP call of an execution runs into; "bad_method" stands for an
\* api_config whose method is none of GET, POST, PUT
ToolOutcomes == {"ok", "http_error", "connection_error", "timeout", "bad_method"}

IsRegistered(tool_id) == \E i \in 1..Len(customTools) : customTools[i].id = tool_id

\* execute_custom_tool: the dict it returns (status and error keys)
ExecuteEnvelope(tool_id, outcome) ==
    IF ~IsRegistered(tool_id) THEN [status |-> None, error |-> "Tool not found"]
    ELSE IF outcome = "bad_method"
    THEN [status |-> None, error |-> "Unsupported HTTP method"]
    ELSE IF outcome = "ok" THEN [status |-> "success", error |-> None]
    ELSE IF outcome = "http_error"
    THEN [status |-> "error", error |-> "API call failed"]
    ELSE [status |-> "error", error |-> "Tool execution error"]

\* dynamic_custom_tool: the string handed to the reasoner
ToolReply(envelope) == IF envelope.status = "success" THEN "api_result" ELSE "Error"

\* execute_custom_tool: the registry after the call; the branch of an
\* unsupported method returns before the save
ExecuteRegistry(tool_id, outcome) ==
    IF ~IsRegistered(tool_id) THEN customTools
    ELSE IF outcome = "bad_method" THEN CountUsage(tool_id)
    ELSE SaveToolToDb(CountUsage(tool_id), tool_id)

ExecuteCustomTool(tool_id, outcome) ==
    LET envelope == ExecuteEnvelope(tool_id, outcome)
    IN  /\ \A i \in 1..Len(customTools) : customTools[i].usage_count < MaxCount
        /\ customTools' = ExecuteRegistry(tool_id, outcome)
        /\ lastOp' = [op |-> "execute_tool", agent_id |-> None, studio_id |-> None,
                      reply |-> ToolReply(envelope), tool_id |-> tool_id,
                      failed |-> (~IsRegistered(tool_id) \/ outcome # "ok"),
                      status |-> envelope.status, error |-> envelope.error]
        /\ UNCHANGED <<regVars, studios, chatVars, evVars, auxVars>>

InitTools == InitResolve

NextTools == \E id \in ToolIds, outcome \in ToolOutcomes : ExecuteCustomTool(id, outcome)

SpecTools == InitTools /\ [][NextTools]_vars

\* C17: every failed execution of a custom tool (connection error, HTTP
\* status other than success, timeout, unsupported method, unknown tool id)
\* yields an envelope with status "error" and an error message, handed back
\* as a normal tool result.
C17_FailureEnvelope ==
    (lastOp.op = "execute_tool" /\ lastOp.failed)
        => ( /\ lastOp.status = "error"
             /\ lastOp.error # None
             /\ lastOp.reply = "Error" )

\* C23: every invocation of a registered custom tool raises the usage
\* count of its definition by one, whatever the outcome, and leaves the
\* persisted count equal to the one in memory.
C23_UsageCounted ==
    [][lastOp'.op = "execute_tool"
         => \A i \in 1..Len(customTools) :
               customTools[i].id = lastOp'.tool_id
                   => ( /\ customTools'[i].usage_count = customTools[i].usage_count + 1
                        /\ customTools'[i].saved_count = customTools'[i].usage_count )]_vars

----------------------------------------------------------------------------
\* Chat turn: routes/chat.py chat_with_agent around
\* LangGraphAgentManager.chat_with_agent

ChatAgentIds == {"A"}

ThreadIds == {"t1", "t2"}

\* shapes of the last AI message handed to the extraction code
FinalShapes == {"json_one_asset", "json_bad_asset", "json_no_message", "text"}

Message(role, agent_id, thread_id, tool) ==
    [role |-> role, agent_id |-> agent_id, thread_id |-> thread_id, tool |-> tool]

\* MemorySaver is one store for all agents, addressed through
\* config_dict["configurable"] = {"thread_id": thread_id}
CheckpointKeyByAgent(agent_id, thread_id) == agent_id

CheckpointKey(agent_id, thread_id) == thread_id

GetCheckpoint(key) == IF key \in DOMAIN checkpoints THEN checkpoints[key] ELSE <<>>

\* the checkpoint written after a step, when the agent was built with memory
PutCheckpoint(s, memory_enabled, messages) ==
    IF memory_enabled
    THEN Put(checkpoints, CheckpointKey(chat[s].agent_id, chat[s].thread_id), messages)
    ELSE checkpoints

\* tools_used as the manager collects it from the tool calls of all messages
ToolsUsed(messages) ==
    LET Called(m) == m.role = "ai" /\ m.tool # None
        callsOf == SelectSeq(messages, Called)
        First(i) == \A j \in 1..(i - 1) : callsOf[j].tool # callsOf[i].tool
        idx == {i \in 1..Len(callsOf) : First(i)}
        Nth[k \in 0..Len(callsOf)] ==
            IF k = 0 THEN <<>>
            ELSE IF k \in idx THEN Append(Nth[k - 1], callsOf[k].tool) ELSE Nth[k - 1]
    IN  Nth[Len(callsOf)]

\* store_artwork_in_db
StoreArtworkInDb(agent_id, artwork_id) ==
    LET cfg == GetAgentConfig(agent_id)
    IN  CreateAgent(agent_id, [cfg EXCEPT !.artworks_created = @ + 1,
                                         !.artwork_ids = Append(@, artwork_id)])

\* thread ids are interchangeable: the first request names this one
FirstThread == "t1"

NoRequestYet == lastChat.agent_id = None /\ \A s \in Sessions : chat[s].pc = "idle"

\* request slots are interchangeable: a request takes the first free one
FreeBefore(r, s) == r = "r1" /\ s = "r2"

\* the request reaches the manager: get_or_create_agent, then the input of
\* the graph (the thread's checkpoint, when memory is on, and the new message)
ChatStart(s, agent_id, thread_id) ==
    /\ chat[s].pc = "idle"
    /\ \A r \in Sessions : FreeBefore(r, s) => chat[r].pc # "idle"
    /\ turns < MaxTurns
    /\ NoRequestYet => thread_id = FirstThread
    /\ turns' = turns + 1
    /\ \E built \in BOOLEAN :
          IF ~built
          THEN \* building the agent raises (no model key, ...)
               /\ agent_id \notin DOMAIN managerAgents
               /\ chat' = [chat EXCEPT ![s] =
                    [NoChat EXCEPT !.pc = "failed", !.agent_id = agent_id,
                                   !.thread_id = thread_id,
                                   !.failure = "agent_construction"]]
               /\ UNCHANGED <<managerAgents, checkpoints>>
          ELSE LET info == GetOrCreateAgent(agent_id)
                   history == IF info.config.memory_enabled
                              THEN GetCheckpoint(CheckpointKey(agent_id, thread_id))
                              ELSE <<>>
                   messages == Append(history, Message("human", agent_id, thread_id, None))
               IN  /\ managerAgents' = Put(managerAgents, agent_id, info)
                   /\ chat' = [chat EXCEPT ![s] =
                        [NoChat EXCEPT !.pc = "agent", !.agent_id = agent_id,
                                       !.thread_id = thread_id,
                                       !.messages = messages, !.info = info]]
                   /\ checkpoints' =
                        IF info.config.memory_enabled
                        THEN Put(checkpoints, CheckpointKey(agent_id, thread_id), messages)
                        ELSE checkpoints
    /\ UNCHANGED <<regVars, envVars, artSeq, lastChat, lastOp, evVars, auxVars>>

\* the reasoner answers the transcript: it raises, asks for one of the
\* agent's tools, or gives its final answer
AgentNode(s, cap) ==
    LET c == chat[s]
        info == c.info
        Say(tool) == Append(c.messages, Message("ai", c.agent_id, c.thread_id, tool))
    IN  /\ \/ /\ chat' = [chat EXCEPT ![s].pc = "failed", ![s].failure = "reasoning"]
              /\ UNCHANGED checkpoints
           \/ \E i \in 1..Len(info.tools) :
                /\ Len(c.calls) < cap
                /\ chat' = [chat EXCEPT ![s].pc = "tools",
                                        ![s].steps = @ + 1,
                                        ![s].messages = Say(info.tools[i].name),
                                        ![s].calls = Append(@, info.tools[i].name),
                                        ![s].pending = info.tools[i]]
                /\ checkpoints' = PutCheckpoint(s, info.config.memory_enabled,
                                                Say(info.tools[i].name))
           \/ \E shape \in FinalShapes :
                /\ chat' = [chat EXCEPT ![s].pc = "respond",
                                        ![s].steps = @ + 1,
                                        ![s].messages = Say(None),
                                        ![s].final = shape]
                /\ checkpoints' = PutCheckpoint(s, info.config.memory_enabled, Say(None))
        /\ UNCHANGED <<regVars, envVars, artSeq>>

\* the requested tool runs and its result joins the transcript
ToolsNode(s) ==
    LET c == chat[s]
        info == c.info
        tool == c.pending
        messages == Append(c.messages, Message("tool", c.agent_id, c.thread_id, tool.name))
    IN  /\ chat' = [chat EXCEPT ![s].pc = "agent", ![s].steps = @ + 1,
                                ![s].messages = messages, ![s].pending = None]
        /\ checkpoints' = PutCheckpoint(s, info.config.memory_enabled, messages)
        /\ IF tool.kind = "custom"
           THEN /\ customTools' = ExecuteRegistry(tool.ref, "ok")
                /\ UNCHANGED <<regVars, studios, artSeq>>
           ELSE IF tool.name = "generate_image"
           THEN \* agent_tools.py:252 reads the unbound name "proof": the tool
                \* answers {"success": False} before anything is stored
                UNCHANGED <<regVars, envVars, artSeq>>
           ELSE \E ok \in BOOLEAN :
                  IF ok /\ artSeq < MaxArtworks
                  THEN /\ artSeq' = artSeq + 1
                       /\ StoreArtworkInDb(tool.ref, artSeq + 1)
                       /\ UNCHANGED envVars
                  ELSE UNCHANGED <<regVars, envVars, artSeq>>

\* one superstep of the graph under {"recursion_limit": 30}
GraphStep(s, cap) ==
    /\ chat[s].pc \in {"agent", "tools"}
    /\ IF chat[s].steps >= RecursionLimit
       THEN /\ chat' = [chat EXCEPT ![s].pc = "failed",
                                    ![s].failure = "recursion_limit"]
            /\ UNCHANGED <<regVars, envVars, checkpoints, artSeq>>
       ELSE IF chat[s].pc = "agent" THEN AgentNode(s, cap) ELSE ToolsNode(s)
    /\ UNCHANGED <<managerAgents, turns, lastChat, lastOp, evVars, auxVars>>

\* what the manager hands back.  message is "error" for the text of the
\* except branch, "message" for the message field of the parsed JSON and
\* "content" for the content of the last AI message as it stands.  An asset
\* entry that AssetInfo rejects is kept as a raw dict, which AgentResponse
\* rejects in turn: the except branch answers.
ManagerResponse(c) ==
    IF c.pc = "failed" \/ c.final = "json_bad_asset"
    THEN [message |-> "error", assets |-> 0]
    ELSE IF c.final = "json_one_asset"
    THEN [message |-> "message", assets |-> 1]
    ELSE [message |-> "content", assets |-> 0]

\* routes/chat.py:53-70: the tools_used of the route
RouteToolsUsed(manager_tools_used) == <<>>

StandardTools == {"create_artwork", "analyze_art", "remix_concept", "blockchain_integration"}

\* persona evolution on every turn, tools or not
EvolveAfterTurnAlways(cfg, tools_used) == EvolvePersona(cfg, "conversation")

\* routes/chat.py:72-95: the configuration after the evolution rules
EvolveAfterTurn(cfg, tools_used) ==
    IF tools_used = <<>> THEN cfg
    ELSE LET c1 == IF InSeq("create_artwork", tools_used)
                   THEN EvolvePersona(cfg, "artwork_creation")
                   ELSE IF InSeq("analyze_art", tools_used) \/ InSeq("remix_concept", tools_used)
                   THEN EvolvePersona(cfg, "creative_analysis")
                   ELSE cfg
         IN  IF \E i \in 1..Len(tools_used) : tools_used[i] \notin StandardTools
             THEN EvolvePersona(c1, "custom_tool_usage")
             ELSE c1

\* the manager returns and the route builds its ChatResponse
ChatFinish(s) ==
    LET c == chat[s]
        response == ManagerResponse(c)
        tools_used == RouteToolsUsed(ToolsUsed(c.messages))
        before == GetAgentConfig(c.agent_id)
        after == EvolveAfterTurn(before, tools_used)
    IN  /\ c.pc \in {"respond", "failed"}
        /\ IF after # before THEN CreateAgent(c.agent_id, after) ELSE UNCHANGED regVars
        /\ chat' = [chat EXCEPT ![s] = NoChat]
        /\ lastChat' =
              [agent_id |-> c.agent_id, thread_id |-> c.thread_id,
               steps |-> c.steps, calls |-> c.calls, final |-> c.final,
               failure |-> IF c.pc = "respond" /\ c.final = "json_bad_asset"
                           THEN "extraction" ELSE c.failure,
               before |-> before,
               result |-> [success |-> TRUE, response |-> response.message,
                           error |-> None, tools_used |-> tools_used,
                           artworks_created |-> response.assets,
                           persona_evolved |-> (after # before)]]
        /\ UNCHANGED <<envVars, managerAgents, checkpoints, turns, artSeq, lastOp, evVars, auxVars>>

----------------------------------------------------------------------------
\* SpecRules: the evolution rules of the chat route over any tools_used

RuleToolsUsed ==
    { <<"create_artwork">>, <<"analyze_art">>, <<"weather">>,
      <<"create_artwork", "weather">>, <<"analyze_art", "weather">>,
      <<"create_artwork", "analyze_art">>, <<"blockchain_integration">> }

\* the first rule is an if/elif over the art tools, the second rule is the
\* custom-tool rule; each branch taken calls evolve_persona once
RuleEvolves(tools_used) ==
    (IF InSeq("create_artwork", tools_used) \/ InSeq("analyze_art", tools_used)
        \/ InSeq("remix_concept", tools_used) THEN 1 ELSE 0)
    + (IF \E i \in 1..Len(tools_used) : tools_used[i] \notin StandardTools
       THEN 1 ELSE 0)

\* each branch taken calls create_agent right after its evolve_persona
RuleSaves(tools_used) == RuleEvolves(tools_used)

\* routes/chat.py:72-95 run on a given tools_used
EvolutionRules(agent_id, tools_used) ==
    LET before == GetAgentConfig(agent_id)
        after == EvolveAfterTurn(before, tools_used)
    IN  /\ turns < MaxTurns
        /\ turns' = turns + 1
        /\ IF RuleSaves(tools_used) > 0 THEN CreateAgent(agent_id, after)
           ELSE UNCHANGED regVars
        /\ lastOp' = [op |-> "evolution_rules", agent_id |-> agent_id,
                      studio_id |-> None, reply |-> "ok", tools_used |-> tools_used,
                      evolves |-> after.interaction_count - before.interaction_count,
                      saves |-> RuleSaves(tools_used)]
        /\ UNCHANGED <<envVars, managerAgents, checkpoints, chat, artSeq, lastChat,
                       evVars, auxVars>>

InitRules == InitEvolve

NextRules == \E tools_used \in RuleToolsUsed : EvolutionRules(EvolveAgent, tools_used)

SpecRules == InitRules /\ [][NextRules]_vars

----------------------------------------------------------------------------
\* Spec: chat turns of agent "A", one after the other

ChatToolSets == { {"generate_image"}, {"generate_video"} }

ChatCustomTools == <<"weather">>

InitChatWith(registry, done) ==
    /\ \E tools \in ChatToolSets, mem \in BOOLEAN :
          LET c == Config("A", <<"bold", "ironic", "restless">>, <<>>, 0, 0,
                          tools, ChatCustomTools, mem, "s1")
          IN  /\ agents = Put(SetupDefaultAgents(<<>>), "A", c)
              /\ agentsDb = ("A" :> c)
    /\ customTools = registry
    /\ studios = StudiosFile
    /\ managerAgents = <<>>
    /\ checkpoints = <<>>
    /\ chat = [s \in Sessions |-> NoChat]
    /\ turns = done
    /\ artSeq = 0
    /\ lastChat = NoTurn
    /\ stores = [w \in StoreWorkers |-> NoStore]
    /\ lastPrompt = NoPrompt
    /\ dataset = NoDataset
    /\ lastOp = Op("startup", None, None, "ok")
    /\ ev0 = DefaultConfig
    /\ evCalls = 0
    /\ evArt = 0
    /\ evCross = 0

FirstSession == "r1"

Init == InitChatWith(<<ToolEntry("t1", "weather")>>, 0)

Next ==
    \/ \E a \in ChatAgentIds, t \in ThreadIds : ChatStart(FirstSession, a, t)
    \/ GraphStep(FirstSession, MaxToolCalls)
    \/ ChatFinish(FirstSession)

Spec == Init /\ [][Next]_vars

\* C1: every failure while handling a turn (agent construction, reasoning,
\* tool dispatch, step ceiling, final-answer extraction) reaches the caller
\* as a result with success = false and an error message, never success = true.
C1_FailuresAreStructured ==
    lastChat.failure # None
        => (lastChat.result.success = FALSE /\ lastChat.result.error # None)

\* C11: a final output that does not parse (free text, JSON without the
\* message/assets shape, asset entries that do not fit the asset schema) is
\* answered as {message: <the text>, assets: {}}, never as a parse or
\* validation error.
C11_ParseFailureFallsBack ==
    ( /\ lastChat.final \in {"text", "json_no_message", "json_bad_asset"}
      /\ lastChat.failure \in {None, "extraction"} )
        => ( /\ lastChat.result.response = "content"
             /\ lastChat.result.artworks_created = 0 )

\* C7: agent A with tools_enabled = ["generate_image"] and zero counters; the
\* reasoner calls generate_image once and answers with one asset: the result
\* has tools_used = ["generate_image"] and artworks_created = 1, and the
\* stored A has interaction_count = 1 and artworks_created = 1.
C7_ImageTurnCounts ==
    ( /\ lastChat.agent_id = "A"
      /\ lastChat.before.tools_enabled = {"generate_image"}
      /\ lastChat.before.interaction_count = 0
      /\ turns = 1
      /\ lastChat.calls = <<"generate_image">>
      /\ lastChat.final = "json_one_asset" )
        => ( /\ lastChat.result.tools_used = <<"generate_image">>
             /\ lastChat.result.artworks_created = 1
             /\ agents["A"].interaction_count = 1
             /\ agents["A"].artworks_created = 1
             /\ agentsDb["A"].interaction_count = 1
             /\ agentsDb["A"].artworks_created = 1 )

----------------------------------------------------------------------------
\* SpecThreads: the last two requests admitted, free to overlap in the two
\* request slots

InitThreads == InitChatWith(<<ToolEntry("t1", "weather")>>, MaxTurns - 2)

NextThreads ==
    \/ \E s \in Sessions, a \in ChatAgentIds, t \in ThreadIds : ChatStart(s, a, t)
    \/ \E s \in Sessions : GraphStep(s, MaxToolCalls)
    \/ \E s \in Sessions : ChatFinish(s)

SpecThreads == InitThreads /\ [][NextThreads]_vars

\* the history handed to the reasoner of a turn in progress
ReasonerHistory(s) == chat[s].messages

\* C2: under every interleaving of concurrent turns, the history handed to
\* the reasoner for thread t holds only messages sent or produced under t.
C2_HistoryStaysInThread ==
    \A s \in Sessions :
        \A i \in 1..Len(ReasonerHistory(s)) :
            ReasonerHistory(s)[i].thread_id = chat[s].thread_id

\* two turns of the same agent with memory on run at once on different
\* threads, each past its first reasoning step
C2_Witness ==
    /\ chat["r1"].pc # "idle" /\ chat["r2"].pc # "idle"
    /\ chat["r1"].agent_id = chat["r2"].agent_id
    /\ chat["r1"].agent_id \in DOMAIN managerAgents
    /\ chat["r1"].thread_id # chat["r2"].thread_id
    /\ managerAgents[chat["r1"].agent_id].config.memory_enabled
    /\ Len(chat["r1"].messages) >= 2 /\ Len(chat["r2"].messages) >= 2

\* C8: a step of a turn in which no tool is used, the finishing step
\* included, leaves the registry and the stored rows (counters, traits,
\* evolution history) as they are.
C8_NoToolsNoEvolution ==
    [][\A s \in Sessions :
          (chat'[s] # chat[s] /\ chat[s].calls = <<>> /\ chat'[s].calls = <<>>)
              => UNCHANGED regVars]_vars

\* a turn without tool calls has finished with an answer
C8_Witness ==
    /\ lastChat.agent_id # None
    /\ lastChat.calls = <<>>
    /\ lastChat.final = "text"

----------------------------------------------------------------------------
\* SpecManager: the last two chat requests, one after the other, of two
\* registered agents, with memory resets and configuration updates between
\* and during them

ManagerAgentIds == {"A", DefaultAgentId}

Drop(f, k) == [x \in (DOMAIN f) \ {k} |-> f[x]]

\* DELETE /agents/{agent_id}/memory.  Whether the checkpointer has an
\* attribute "delete" depends on the installed library; in either case the
\* only thing removed is the cached agent.
ResetAgentMemory(agent_id, thread_id) ==
    /\ IF agent_id \in DOMAIN managerAgents
          /\ managerAgents[agent_id].config.memory_enabled
       THEN \E has_delete \in BOOLEAN :
               managerAgents' = IF has_delete THEN Drop(managerAgents, agent_id)
                                ELSE managerAgents
       ELSE UNCHANGED managerAgents
    /\ lastOp' = [op |-> "reset_memory", agent_id |-> agent_id, studio_id |-> None,
                  reply |-> "ok", thread_id |-> thread_id]
    /\ UNCHANGED <<regVars, envVars, checkpoints, chat, turns, artSeq, lastChat,
                   evVars, auxVars>>

\* create-or-update of an agent with another tools_enabled (POST /agents)
UpdateAgentTools(agent_id, tools) ==
    CreateAgentMain(agent_id, [GetAgentConfig(agent_id) EXCEPT !.tools_enabled = tools])

InitManager == InitChatWith(<<>>, MaxTurns - 2)

NextManager ==
    \/ \E a \in ManagerAgentIds, t \in ThreadIds : ChatStart(FirstSession, a, t)
    \/ GraphStep(FirstSession, MaxToolCalls)
    \/ ChatFinish(FirstSession)
    \/ \E a \in ManagerAgentIds, t \in ThreadIds : ResetAgentMemory(a, t)
    \/ \E tools \in ChatToolSets : UpdateAgentTools("A", tools)

SpecManager == InitManager /\ [][NextManager]_vars

\* C12: a reset of (agent_id, thread_id) empties the history of that thread,
\* so that the next chat on it sees no earlier turn, and leaves the history
\* of every other thread as it is.
C12_ResetDiscardsOneThread ==
    [][(lastOp'.op = "reset_memory" /\ (lastOp' # lastOp \/ managerAgents' # managerAgents))
          => LET Other(m) == ~(m.agent_id = lastOp'.agent_id
                               /\ m.thread_id = lastOp'.thread_id)
                 After(k) == IF k \in DOMAIN checkpoints' THEN checkpoints'[k] ELSE <<>>
             IN  /\ \A k \in DOMAIN checkpoints' :
                       SelectSeq(checkpoints'[k], Other) = checkpoints'[k]
                 /\ \A k \in DOMAIN checkpoints :
                       SelectSeq(After(k), Other) = SelectSeq(checkpoints[k], Other)]_vars

\* C13: a chat that starts after tools_enabled was changed through
\* create-or-update uses the tool set resolved from the configuration as it
\* is now, never the one built from the old configuration.
C13_ToolSetFollowsConfig ==
    [][\A s \in Sessions :
          (chat[s].pc = "idle" /\ chat'[s].pc = "agent")
              => chat'[s].info.tools
                    = GetAgentTools(GetAgentConfig(chat'[s].agent_id))]_vars

\* C20: the history handed to the reasoner of agent B on thread t holds no
\* message recorded while another agent was chatting on t.
C20_HistoryStaysWithAgent ==
    \A s \in Sessions :
        \A i \in 1..Len(ReasonerHistory(s)) :
            ReasonerHistory(s)[i].agent_id = chat[s].agent_id

----------------------------------------------------------------------------
\* SpecStore: the tool calls of one AI message run in threads of their own;
\* each thread that made an artwork goes through store_artwork_in_db for
\* agent "A".  Evolve requests are served between batches.

\* agent_tools.py:1190-1191: the thread reads artworks_created
StoreLoad(w) ==
    /\ stores[w].pc = "idle"
    /\ artSeq < MaxArtworks
    /\ artSeq' = artSeq + 1
    /\ stores' = [stores EXCEPT ![w] =
          [pc |-> "loaded", agent_id |-> EvolveAgent, artwork_id |-> artSeq + 1,
           seen |-> GetAgentConfig(EvolveAgent).artworks_created]]
    /\ UNCHANGED <<regVars, envVars, managerAgents, checkpoints, chat, turns,
                   lastChat, lastOp, evVars, lastPrompt, dataset>>

\* agent_tools.py:1191-1199: it assigns the sum, appends the id to the list
\* of the shared object and saves the object
StoreWrite(w) ==
    LET st == stores[w]
        cfg == GetAgentConfig(st.agent_id)
    IN  /\ st.pc = "loaded"
        /\ CreateAgent(st.agent_id,
              [cfg EXCEPT !.artworks_created = st.seen + 1,
                          !.artwork_ids = Append(@, st.artwork_id)])
        /\ stores' = [stores EXCEPT ![w] = NoStore]
        /\ evArt' = evArt + 1
        /\ UNCHANGED <<envVars, chatVars, lastOp, ev0, evCalls, evCross, lastPrompt,
                       dataset>>

\* POST /agents/{agent_id}/evolve, served while no turn is running
EvolveBetweenBatches(interaction_type) ==
    /\ \A w \in StoreWorkers : stores[w].pc = "idle"
    /\ evCalls < MaxCount
    /\ EvolveCall(interaction_type)

InitStore == InitEvolve

NextStore ==
    \/ \E w \in StoreWorkers : StoreLoad(w)
    \/ \E w \in StoreWorkers : StoreWrite(w)
    \/ \E t \in InteractionTypes : EvolveBetweenBatches(t)

SpecStore == InitStore /\ [][NextStore]_vars

\* C14: once the concurrent store calls and turns of an agent are over,
\* interaction_count and artworks_created are the initial values plus the
\* number of increments performed: no update is lost.
C14_NoLostUpdate ==
    (\A w \in StoreWorkers : stores[w].pc = "idle")
        => ( /\ agents[EvolveAgent].artworks_created = ev0.artworks_created + evArt
             /\ agents[EvolveAgent].interaction_count = ev0.interaction_count + evCalls
             /\ agentsDb[EvolveAgent].artworks_created = ev0.artworks_created + evArt )

----------------------------------------------------------------------------
\* SpecArtworks: one agent storing artworks, one call after the other

\* "keep only recent 100"
ArtworkIdsLimit == 100

\* a generation tool of the agent stores one artwork
StoreOneArtwork(agent_id) ==
    /\ artSeq < MaxStored
    /\ artSeq' = artSeq + 1
    /\ StoreArtworkInDb(agent_id, artSeq + 1)
    /\ evArt' = evArt + 1
    /\ UNCHANGED <<envVars, managerAgents, checkpoints, chat, turns, lastChat,
                   lastOp, ev0, evCalls, evCross, auxVars>>

InitArtworks == InitEvolve

NextArtworks == StoreOneArtwork(EvolveAgent)

SpecArtworks == InitArtworks /\ [][NextArtworks]_vars

\* C27: artwork_ids of an agent never holds more than the most recent 100
\* ids, holds no id twice and keeps the ids in order of storage.
C27_ArtworkIdsBounded ==
    \A k \in DOMAIN agents :
        LET ids == agents[k].artwork_ids
        IN  /\ Len(ids) <= ArtworkIdsLimit
            /\ \A i, j \in 1..Len(ids) : i < j => ids[i] < ids[j]

----------------------------------------------------------------------------
\* SpecLoop: one request slot, one turn, an agent with a single tool, and a
\* reasoner free to ask for the tool at every reasoning step

InitLoop == InitChatWith(<<>>, MaxTurns - 1)

NextLoop ==
    \/ \E a \in ChatAgentIds, t \in ThreadIds : ChatStart(FirstSession, a, t)
    \/ GraphStep(FirstSession, RecursionLimit)
    \/ ChatFinish(FirstSession)

SpecLoop == InitLoop /\ [][NextLoop]_vars

\* C3: with a reasoner that always asks for another tool call the loop never
\* runs more steps than the ceiling and ends, after exactly that many, as a
\* failed turn carrying an error.
C3_CeilingEndsInFailed ==
    /\ \A s \in Sessions : chat[s].steps <= RecursionLimit
    /\ lastChat.failure = "recursion_limit"
          => ( /\ lastChat.steps = RecursionLimit
               /\ lastChat.result.success = FALSE
               /\ lastChat.result.error # None )

----------------------------------------------------------------------------
\* SpecDataset: the dataset cache, the upload timer and the upload routes

\* saturation of the per-entry count of successful uploads
UploadCountCap == 2

ResultKeys ==
    {"success", "cid", "file_size", "primary_url", "ipns_address",
     "direct_ipfs_url", "filename", "ipns_published", "addressing_method"}

\* upload_and_publish_to_ipns: a failed upload gives the failure dict; a
\* successful upload without IPNS configuration falls off the end of the
\* function, which returns None
UploadAndPublishToIpns(upload_ok, configured, publish_ok) ==
    LET r == [called |-> TRUE, upload_ok |-> upload_ok, configured |-> configured,
              publish_ok |-> publish_ok, returned |-> TRUE, keys |-> {},
              success |-> FALSE, ipns_published |-> FALSE]
    IN  IF ~upload_ok
        THEN [r EXCEPT !.keys = {"success", "error", "addressing_method"}]
        ELSE IF ~configured THEN [r EXCEPT !.returned = FALSE]
        ELSE IF publish_ok
        THEN [r EXCEPT !.keys = ResultKeys, !.success = TRUE, !.ipns_published = TRUE]
        ELSE [r EXCEPT !.keys = ResultKeys \cup {"warning"}, !.success = TRUE]

\* _get_pending_entries
GetPendingEntries == dataset.entries \ dataset.markers

\* _get_time_based_pending_entries
GetTimeBasedPendingEntries == (dataset.entries \cap dataset.old) \ dataset.markers

DatasetFrame ==
    UNCHANGED <<regVars, envVars, chatVars, lastOp, evVars, stores, lastPrompt>>

\* DecentralizedDatasetManager.__init__: the IPNS configuration is loaded and
\* the timer is started
DatasetManagerInit(configured) ==
    /\ ~dataset.started
    /\ dataset' = [dataset EXCEPT !.started = TRUE, !.ipns = configured]
    /\ DatasetFrame

\* routes/chat.py: the capture block of a chat turn saves a new entry
CreateDatasetEntry(e) ==
    /\ dataset.started
    /\ e \notin dataset.entries
    /\ dataset' = [dataset EXCEPT !.entries = @ \cup {e}]
    /\ DatasetFrame

\* the upload delay of two minutes has passed for an entry
DelayPasses(e) ==
    /\ e \in dataset.entries \ dataset.old
    /\ dataset' = [dataset EXCEPT !.old = @ \cup {e}]
    /\ DatasetFrame

\* _perform_automatic_uploads up to the batch of store_batch_to_filecoin;
\* with nothing to upload the timer is only armed again
TimerFire ==
    /\ dataset.started
    /\ dataset.up["timer"].pc = "idle"
    /\ GetPendingEntries # {}
    /\ GetTimeBasedPendingEntries # {}
    /\ dataset' = [dataset EXCEPT !.up["timer"] =
                      [pc |-> "uploading", pending |-> GetTimeBasedPendingEntries]]
    /\ DatasetFrame

\* force_dataset_upload (force or time based) and force_upload_all_entries
\* up to the batch they build
RouteRead(force) ==
    LET pending == IF force THEN GetPendingEntries ELSE GetTimeBasedPendingEntries
    IN  /\ dataset.started
        /\ dataset.up["route"].pc = "idle"
        /\ pending # {}
        /\ dataset' = [dataset EXCEPT !.up["route"] =
                          [pc |-> "uploading", pending |-> pending]]
        /\ DatasetFrame

\* the upload of the batch and what follows it: the entries are marked when
\* the result says success; a result of None raises in the caller, which
\* marks nothing (store_batch_to_filecoin returns None, the routes answer 500)
Upload(u, upload_ok, publish_ok) ==
    LET batch == dataset.up[u].pending
        result == UploadAndPublishToIpns(upload_ok, dataset.ipns, publish_ok)
        Count(n) == IF n < UploadCountCap THEN n + 1 ELSE n
    IN  /\ dataset.up[u].pc = "uploading"
        /\ dataset' =
              [dataset EXCEPT
                 !.up[u] = [pc |-> "idle", pending |-> {}],
                 !.uploads = [e \in DatasetEntryIds |->
                                IF upload_ok /\ e \in batch THEN Count(@[e]) ELSE @[e]],
                 !.markers = IF result.returned /\ result.success
                             THEN @ \cup batch ELSE @,
                 !.lastResult = result]
        /\ DatasetFrame

InitDataset == InitService

NextDataset ==
    \/ \E configured \in BOOLEAN : DatasetManagerInit(configured)
    \/ \E e \in DatasetEntryIds : CreateDatasetEntry(e)
    \/ \E e \in DatasetEntryIds : DelayPasses(e)
    \/ TimerFire
    \/ \E force \in BOOLEAN : RouteRead(force)
    \/ \E u \in Uploaders, upload_ok \in BOOLEAN, publish_ok \in BOOLEAN :
          Upload(u, upload_ok, publish_ok)

SpecDataset == InitDataset /\ [][NextDataset]_vars

\* C28: upload_and_publish_to_ipns always returns a result with a success
\* flag and an ipns_published flag; when upload and publish both succeed,
\* both flags are true and the result has the IPNS address and the direct
\* content URL.
C28_StructuredUploadResult ==
    LET r == dataset.lastResult
    IN  r.called
            => ( /\ r.returned
                 /\ {"success", "ipns_published"} \subseteq r.keys
                 /\ (r.upload_ok /\ r.configured /\ r.publish_ok)
                       => ( /\ r.success
                            /\ r.ipns_published
                            /\ {"ipns_address", "direct_ipfs_url"} \subseteq r.keys ) )

\* C29: no entry is part of more than one successful upload batch, however
\* the timer thread and the upload routes interleave.  Stated for a manager
\* with IPNS configured, where every successful upload marks its entries.
C29_UploadedOnce ==
    dataset.ipns => \A e \in DatasetEntryIds : dataset.uploads[e] <= 1

----------------------------------------------------------------------------
\* SpecDatasetLive: the same manager when every storage upload succeeds; the
\* timer thread runs whenever it can and time passes for every entry

TimerUpload == \E publish_ok \in BOOLEAN : Upload("timer", TRUE, publish_ok)

NextDatasetLive ==
    \/ \E configured \in BOOLEAN : DatasetManagerInit(configured)
    \/ \E e \in DatasetEntryIds : CreateDatasetEntry(e)
    \/ \E e \in DatasetEntryIds : DelayPasses(e)
    \/ TimerFire
    \/ TimerUpload
    \/ \E force \in BOOLEAN : RouteRead(force)
    \/ \E publish_ok \in BOOLEAN : Upload("route", TRUE, publish_ok)

SpecDatasetLive ==
    /\ InitDataset
    /\ [][NextDatasetLive]_vars
    /\ WF_vars(TimerFire)
    /\ WF_vars(TimerUpload)
    /\ WF_vars(\E e \in DatasetEntryIds : DelayPasses(e))

\* C30: when storage uploads succeed, every cached entry eventually gets its
\* uploaded marker, with or without IPNS configuration, and an entry has the
\* marker only after a successful upload that included it.
C30_EveryEntryMarked ==
    /\ [](\A e \in dataset.markers : dataset.uploads[e] >= 1)
    /\ \A e \in DatasetEntryIds :
          (e \in dataset.entries) ~> (e \in dataset.markers)

====
